---- MODULE Spec2Model ----
\* Flight calendar updater: the scraping pipeline (extract_flight.py), the
\* AI extraction path (src/extract_flight_ai.py, src/datamodels.py), the
\* calendar and sheet clients and the batch loop of main.
\*
\* Text is modelled as a sequence of one-character strings, so that the
\* string operations of the code (split, strip, replace, lower, in,
\* startswith, int, strptime) are computed and not assumed.
EXTENDS Integers, Sequences, FiniteSets, TLC

\* ---------------------------------------------------------------------
\* Python string operations
\* ---------------------------------------------------------------------

UpperChars == <<"A", "B", "C", "D", "E", "F", "G", "H", "I", "J", "K", "L", "M", "N", "O", "P", "Q", "R", "S", "T", "U", "V", "W", "X", "Y", "Z">>
LowerChars == <<"a", "b", "c", "d", "e", "f", "g", "h", "i", "j", "k", "l", "m", "n", "o", "p", "q", "r", "s", "t", "u", "v", "w", "x", "y", "z">>
DigitChars == <<"0", "1", "2", "3", "4", "5", "6", "7", "8", "9">>

IsDigitChar(c) == \E k \in 1..10 : DigitChars[k] = c

DigitVal(c) == (CHOOSE k \in 1..10 : DigitChars[k] = c) - 1

\* str.lower() on one character
LowerChar(c) ==
    IF \E k \in 1..26 : UpperChars[k] = c
    THEN LowerChars[CHOOSE k \in 1..26 : UpperChars[k] = c]
    ELSE c

\* str.upper() on one character
UpperChar(c) ==
    IF \E k \in 1..26 : LowerChars[k] = c
    THEN UpperChars[CHOOSE k \in 1..26 : LowerChars[k] = c]
    ELSE c

StrLower(s) == [k \in 1..Len(s) |-> LowerChar(s[k])]

StrUpper(s) == [k \in 1..Len(s) |-> UpperChar(s[k])]

\* s[a:b] with 1-based inclusive bounds, empty when a > b
Slice(s, a, b) == IF a > b THEN <<>> ELSE SubSeq(s, a, b)

\* sub occurs in s at position k
OccursAt(s, sub, k) ==
    /\ k >= 1
    /\ k + Len(sub) - 1 <= Len(s)
    /\ \A j \in 1..Len(sub) : s[k + j - 1] = sub[j]

\* `sub in s`
StrContains(s, sub) == \E k \in 1..(Len(s) + 1) : OccursAt(s, sub, k)

\* s.startswith(pre)
StartsWith(s, pre) == OccursAt(s, pre, 1)

\* position of the first occurrence of sub in s at or after k, 0 if none
FindFrom(s, sub, k) ==
    IF \E p \in k..(Len(s) + 1) : OccursAt(s, sub, p)
    THEN CHOOSE p \in k..(Len(s) + 1) :
            /\ OccursAt(s, sub, p)
            /\ \A q \in k..(p - 1) : ~OccursAt(s, sub, q)
    ELSE 0

\* s.split(sep) for a non-empty separator: the list of parts
RECURSIVE StrSplit(_, _)
StrSplit(s, sep) ==
    LET p == FindFrom(s, sep, 1) IN
    IF p = 0 THEN <<s>>
    ELSE <<Slice(s, 1, p - 1)>> \o StrSplit(Slice(s, p + Len(sep), Len(s)), sep)

\* s.replace(old, "") for a non-empty old
RECURSIVE StrRemove(_, _)
StrRemove(s, old) ==
    LET p == FindFrom(s, old, 1) IN
    IF p = 0 THEN s
    ELSE Slice(s, 1, p - 1) \o StrRemove(Slice(s, p + Len(old), Len(s)), old)

\* s.strip(chars) with chars given as a set of characters
RECURSIVE LStripChars(_, _)
LStripChars(s, cs) ==
    IF s # <<>> /\ s[1] \in cs THEN LStripChars(Tail(s), cs) ELSE s

RECURSIVE RStripChars(_, _)
RStripChars(s, cs) ==
    IF s # <<>> /\ s[Len(s)] \in cs THEN RStripChars(Slice(s, 1, Len(s) - 1), cs) ELSE s

StripChars(s, cs) == RStripChars(LStripChars(s, cs), cs)

Whitespace == {" "}

\* s.strip()
Strip(s) == StripChars(s, Whitespace)

\* s.split(): the words of s, split on runs of whitespace
Words(s) == SelectSeq(StrSplit(s, <<" ">>), LAMBDA w : w # <<>>)

\* the value of a non-empty string of decimal digits
RECURSIVE DigitsVal(_)
DigitsVal(s) ==
    IF s = <<>> THEN 0 ELSE 10 * DigitsVal(Slice(s, 1, Len(s) - 1)) + DigitVal(s[Len(s)])

IsDigits(s) == s # <<>> /\ \A k \in 1..Len(s) : IsDigitChar(s[k])

\* int(s): surrounding whitespace and one sign are accepted
IntBody(s) == IF s # <<>> /\ s[1] \in {"+", "-"} THEN Tail(s) ELSE s

IntOk(s) == IsDigits(IntBody(Strip(s)))

IntVal(s) ==
    LET t == Strip(s) IN
    IF t[1] = "-" THEN 0 - DigitsVal(IntBody(t)) ELSE DigitsVal(IntBody(t))

\* ---------------------------------------------------------------------
\* Calendar arithmetic, time zones (pytz) and strptime
\* ---------------------------------------------------------------------

IsLeap(y) == (y % 4 = 0 /\ y % 100 # 0) \/ y % 400 = 0

DaysInMonth(y, m) ==
    IF m = 2 THEN (IF IsLeap(y) THEN 29 ELSE 28)
    ELSE IF m \in {4, 6, 9, 11} THEN 30 ELSE 31

RECURSIVE DaysBeforeMonth(_, _)
DaysBeforeMonth(y, m) ==
    IF m = 1 THEN 0 ELSE DaysBeforeMonth(y, m - 1) + DaysInMonth(y, m - 1)

LeapsBefore(y) == ((y - 1) \div 4) - ((y - 1) \div 100) + ((y - 1) \div 400)

\* days from 1970-01-01 to y-m-d
DaysSinceEpoch(y, m, d) ==
    365 * (y - 1970) + (LeapsBefore(y) - LeapsBefore(1970)) + DaysBeforeMonth(y, m) + (d - 1)

\* date.weekday(): Monday is 0, Sunday is 6
Weekday(y, m, d) == (DaysSinceEpoch(y, m, d) + 3) % 7

LastSunday(y, m) ==
    CHOOSE d \in (DaysInMonth(y, m) - 6)..DaysInMonth(y, m) : Weekday(y, m, d) = 6

\* minutes from the start of year y to the local wall time m-d h:mi
MinuteOfYear(y, m, d, h, mi) == ((DaysBeforeMonth(y, m) + (d - 1)) * 24 + h) * 60 + mi

\* the tz database rules of the zones of the modelled airports:
\* standard offset (minutes) and whether the EU summer time rule applies
ZoneStdOffset(zone) ==
    CASE zone = "Europe/Berlin" -> 60
      [] zone = "Europe/Zurich" -> 60
      [] zone = "Asia/Tokyo" -> 540

ZoneHasEUDst(zone) == zone \in {"Europe/Berlin", "Europe/Zurich"}

\* the UTC offset pytz's localize(is_dst=False) gives the wall time
\* y-m-d h:mi in zone: summer time from 03:00 on the last Sunday of March
\* up to 02:00 on the last Sunday of October; wall times in the gap and in
\* the overlap get the standard offset
ZoneOffset(zone, y, m, d, h, mi) ==
    LET t     == MinuteOfYear(y, m, d, h, mi)
        start == MinuteOfYear(y, 3, LastSunday(y, 3), 3, 0)
        end   == MinuteOfYear(y, 10, LastSunday(y, 10), 2, 0)
    IN  IF ZoneHasEUDst(zone) /\ t >= start /\ t < end
        THEN ZoneStdOffset(zone) + 60
        ELSE ZoneStdOffset(zone)

\* an aware datetime: wall time, zone, and the offset fixed by localize
NoDatetime == [year |-> 0, month |-> 0, day |-> 0, hour |-> 0, minute |-> 0,
               zone |-> "", off |-> 0]

\* tz.localize(naive)
Localize(zone, y, m, d, h, mi) ==
    [year |-> y, month |-> m, day |-> d, hour |-> h, minute |-> mi,
     zone |-> zone, off |-> ZoneOffset(zone, y, m, d, h, mi)]

\* the instant of an aware datetime, in minutes since the epoch (UTC)
Instant(dt) ==
    (DaysSinceEpoch(dt.year, dt.month, dt.day) * 24 + dt.hour) * 60 + dt.minute - dt.off

\* datetime.replace(year=y) raises ValueError when the day does not exist in y
ReplaceYearOk(dt, y) == dt.day <= DaysInMonth(y, dt.month)

\* datetime.replace(year=y): only the year changes, tzinfo (and with it the
\* offset chosen by localize) is kept
ReplaceYear(dt, y) == [dt EXCEPT !.year = y]

MonthAbbr == << <<"j", "a", "n">>, <<"f", "e", "b">>, <<"m", "a", "r">>, <<"a", "p", "r">>, <<"m", "a", "y">>, <<"j", "u", "n">>,
               <<"j", "u", "l">>, <<"a", "u", "g">>, <<"s", "e", "p">>, <<"o", "c", "t">>, <<"n", "o", "v">>, <<"d", "e", "c">> >>

MonthFull == << <<"j", "a", "n", "u", "a", "r", "y">>, <<"f", "e", "b", "r", "u", "a", "r", "y">>, <<"m", "a", "r", "c", "h">>, <<"a", "p", "r", "i", "l">>, <<"m", "a", "y">>, <<"j", "u", "n", "e">>,
               <<"j", "u", "l", "y">>, <<"a", "u", "g", "u", "s", "t">>, <<"s", "e", "p", "t", "e", "m", "b", "e", "r">>, <<"o", "c", "t", "o", "b", "e", "r">>, <<"n", "o", "v", "e", "m", "b", "e", "r">>, <<"d", "e", "c", "e", "m", "b", "e", "r">> >>

WeekdayFull == << <<"m", "o", "n", "d", "a", "y">>, <<"t", "u", "e", "s", "d", "a", "y">>, <<"w", "e", "d", "n", "e", "s", "d", "a", "y">>, <<"t", "h", "u", "r", "s", "d", "a", "y">>, <<"f", "r", "i", "d", "a", "y">>,
                 <<"s", "a", "t", "u", "r", "d", "a", "y">>, <<"s", "u", "n", "d", "a", "y">> >>

InTable(tbl, w) == \E k \in 1..Len(tbl) : tbl[k] = StrLower(w)

TableIndex(tbl, w) == CHOOSE k \in 1..Len(tbl) : tbl[k] = StrLower(w)

\* a strptime numeric field of one or two digits
IsNum2(w) == IsDigits(w) /\ Len(w) <= 2

\* strptime parses a date without a year in the year 1900
StrptimeYear == 1900

\* month and day are accepted by strptime's %b/%B and %d
MonthDayOk(tbl, mw, dw) ==
    /\ InTable(tbl, mw)
    /\ IsNum2(dw)
    /\ DigitsVal(dw) >= 1
    /\ DigitsVal(dw) <= DaysInMonth(StrptimeYear, TableIndex(tbl, mw))

\* datetime.strptime(s, "%b %d") succeeds
StrpAbbrevOk(s) ==
    LET w == Words(s) IN
    /\ Len(w) = 2
    /\ s[1] # " " /\ s[Len(s)] # " "
    /\ MonthDayOk(MonthAbbr, w[1], w[2])

\* datetime.strptime(s, "%B %d, %A") succeeds
StrpLongOk(s) ==
    LET w == Words(s) IN
    /\ Len(w) = 3
    /\ s[1] # " " /\ s[Len(s)] # " "
    /\ Len(w[2]) >= 2 /\ w[2][Len(w[2])] = ","
    /\ MonthDayOk(MonthFull, w[1], Slice(w[2], 1, Len(w[2]) - 1))
    /\ InTable(WeekdayFull, w[3])

\* the two formats convert_to_datetime tries, in its order
StrpDateOk(s) == StrpAbbrevOk(s) \/ StrpLongOk(s)

StrpDate(s) ==
    LET w == Words(s) IN
    IF StrpAbbrevOk(s)
    THEN [month |-> TableIndex(MonthAbbr, w[1]), day |-> DigitsVal(w[2])]
    ELSE [month |-> TableIndex(MonthFull, w[1]),
          day |-> DigitsVal(Slice(w[2], 1, Len(w[2]) - 1))]

\* datetime.strptime(s, "%H:%M") succeeds
StrpTimeOk(s) ==
    LET p == StrSplit(s, <<":">>) IN
    /\ Len(p) = 2
    /\ IsNum2(p[1]) /\ DigitsVal(p[1]) <= 23
    /\ IsNum2(p[2]) /\ DigitsVal(p[2]) <= 59

StrpTime(s) ==
    LET p == StrSplit(s, <<":">>) IN
    [hour |-> DigitsVal(p[1]), minute |-> DigitsVal(p[2])]

\* ---------------------------------------------------------------------
\* Reference data (airportsdata, country_converter, pycountry)
\* ---------------------------------------------------------------------

\* Python's None where a text is expected: no text has this shape
PyNone == <<"None">>

\* airportsdata.load("IATA"), restricted to the airports of the model
AirportCodes == { <<"F", "R", "A">>, <<"Z", "R", "H">>, <<"N", "R", "T">> }

AirportCity(code) ==
    CASE code = <<"F", "R", "A">> -> <<"F", "r", "a", "n", "k", "f", "u", "r", "t", "-", "a", "m", "-", "M", "a", "i", "n">>
      [] code = <<"Z", "R", "H">> -> <<"Z", "u", "r", "i", "c", "h">>
      [] code = <<"N", "R", "T">> -> <<"T", "o", "k", "y", "o">>

AirportTz(code) ==
    CASE code = <<"F", "R", "A">> -> "Europe/Berlin"
      [] code = <<"Z", "R", "H">> -> "Europe/Zurich"
      [] code = <<"N", "R", "T">> -> "Asia/Tokyo"

\* cc.convert(name, to="ISO3"): the ISO3 code of a recognised name, and
\* the string "not found" for every other name
CocoConvert(name) ==
    CASE StrLower(name) = <<"g", "e", "r", "m", "a", "n", "y">> -> "DEU"
      [] StrLower(name) = <<"s", "w", "i", "t", "z", "e", "r", "l", "a", "n", "d">> -> "CHE"
      [] StrLower(name) = <<"j", "a", "p", "a", "n">> -> "JPN"
      [] OTHER -> "not found"

\* pycountry.countries.get(alpha_3=...): the country record (named here by
\* its alpha_3 code), None for an unknown code
PycountryGet(iso3) == IF iso3 \in {"DEU", "CHE", "JPN"} THEN iso3 ELSE "None"

\* ---------------------------------------------------------------------
\* extract_flight.py: the field parser
\* ---------------------------------------------------------------------

RECURSIVE StrJoin(_, _)
StrJoin(ws, sep) ==
    IF ws = <<>> THEN <<>>
    ELSE IF Len(ws) = 1 THEN ws[1]
    ELSE ws[1] \o sep \o StrJoin(Tail(ws), sep)

\* list.index(x): position (0-based) of the first x, -1 standing for ValueError
ListIndex(ws, x) ==
    IF \E k \in 1..Len(ws) : ws[k] = x
    THEN (CHOOSE k \in 1..Len(ws) : ws[k] = x /\ \A j \in 1..(k - 1) : ws[j] # x) - 1
    ELSE 0 - 1

\* the empty mapping parse_response returns when there is nothing to report
EmptyRaw ==
    [flight_number |-> <<>>, airline |-> <<>>,
     departure_airport |-> <<>>, arrival_airport |-> <<>>,
     departure_time |-> <<>>, arrival_time |-> <<>>,
     departure_country |-> <<>>, arrival_country |-> <<>>,
     departure_date |-> <<>>, arrival_date |-> <<>>,
     departure_terminal |-> <<>>, arrival_terminal |-> <<>>,
     duration |-> <<>>, aircraft |-> <<>>]

\* extract_pair: the stripped texts of the first two items of a block, ""
\* for a missing container or a missing item
extract_pair(block) ==
    LET items == IF block = <<>> THEN <<>> ELSE block[1] IN
    << IF Len(items) > 0 THEN Strip(items[1]) ELSE <<>>,
       IF Len(items) > 1 THEN Strip(items[2]) ELSE <<>> >>

\* extract_single: the stripped text of a block, "" when it is missing
extract_single(block) == IF block = <<>> THEN <<>> ELSE Strip(block[1])

\* parse_datetime: 'Jan 16, 18:40' into ('Jan 16', '18:40')
parse_datetime(datetime_str) ==
    LET parts == StrSplit(datetime_str, <<",", " ">>) IN
    IF datetime_str = <<>> THEN << <<>>, <<>> >>
    ELSE IF Len(parts) > 1 THEN << parts[1], parts[2] >>
    ELSE << parts[1], <<>> >>

\* the aircraft named by the meta description, "" if none
MetaAircraft(meta) ==
    IF meta # <<>> /\ StrContains(meta[1], <<"P", "l", "a", "n", "e">>)
    THEN IF StrContains(meta[1], <<"P", "l", "a", "n", "e", " ">>)
         THEN StrSplit(StrSplit(meta[1], <<"P", "l", "a", "n", "e", " ">>)[2], <<",">>)[1]
         ELSE <<>>
    ELSE <<>>

\* "No flights are available" in response_text
NoFlightsMarker_Ignored(page) == FALSE

NoFlightsMarker(page) == page.marker

\* parse_response. The page is the record of the parts of the markup the
\* function looks at. The result is tagged: exc names the exception raised
\* ("none" if none), empty tells that the empty mapping {} was returned.
parse_response(page) ==
    LET h1_text  == Strip(page.h1[1])
        parts    == Words(h1_text)
        from     == ListIndex(parts, <<"f", "r", "o", "m">>)
        meta_air == MetaAircraft(page.meta)
        country  == extract_pair(page.Ac)
        airport  == extract_pair(page.zc)
        code     == extract_pair(page.Cc)
        terminal == extract_pair(page.Bc)
        dt       == extract_pair(page.Fc)
        dep      == parse_datetime(dt[1])
        arr      == parse_datetime(dt[2])
        dur_text == extract_single(page.Hc)
    IN
    IF NoFlightsMarker(page) THEN [exc |-> "none", empty |-> TRUE, raw |-> EmptyRaw]
    ELSE IF page.h1 = <<>> THEN [exc |-> "none", empty |-> TRUE, raw |-> EmptyRaw]
    ELSE IF Len(parts) < 2 THEN [exc |-> "IndexError", empty |-> FALSE, raw |-> EmptyRaw]
    ELSE IF from < 0 THEN [exc |-> "ValueError", empty |-> FALSE, raw |-> EmptyRaw]
    ELSE IF ~page.section THEN [exc |-> "none", empty |-> TRUE, raw |-> EmptyRaw]
    ELSE [exc |-> "none", empty |-> FALSE, raw |->
            [flight_number |-> parts[1] \o <<" ">> \o parts[2],
             airline |-> StrJoin(Slice(parts, 3, from), <<" ">>),
             departure_airport |-> airport[1] \o <<" ", "(">> \o code[1] \o <<")">>,
             arrival_airport |-> airport[2] \o <<" ", "(">> \o code[2] \o <<")">>,
             departure_time |-> dep[2],
             arrival_time |-> arr[2],
             departure_country |-> country[1],
             arrival_country |-> country[2],
             departure_date |-> dep[1],
             arrival_date |-> arr[1],
             departure_terminal |-> terminal[1],
             arrival_terminal |-> terminal[2],
             duration |-> IF dur_text # <<>> THEN StrRemove(dur_text, <<"F", "l", "i", "g", "h", "t", " ", "d", "u", "r", "a", "t", "i", "o", "n", " ">>) ELSE <<>>,
             aircraft |-> IF meta_air # <<>> THEN meta_air ELSE extract_single(page.rc)]]

\* ---------------------------------------------------------------------
\* extract_flight.py: the normalizer
\* ---------------------------------------------------------------------

Last(seq) == seq[Len(seq)]

\* extract_airport_code
extract_airport_code(location) ==
    IF StrContains(location, <<"(">>)
    THEN StripChars(Last(StrSplit(location, <<"(">>)), {")"})
    ELSE location

\* extract_country: the pycountry record of the text after the last comma
extract_country(location) ==
    LET country_name == IF StrContains(location, <<",">>)
                        THEN Strip(Last(StrSplit(location, <<",">>)))
                        ELSE location
    IN  PycountryGet(CocoConvert(country_name))

\* extract_city_from_airport raises KeyError for a code not in the table
extract_city_ok(airport_code) == airport_code \in AirportCodes

extract_city_from_airport(airport_code) == AirportCity(airport_code)

\* convert_to_datetime: the exception it raises, "none" if none
convert_to_datetime_exc(date_str, time_str, airport_code) ==
    IF airport_code \notin AirportCodes THEN "KeyError"
    ELSE IF ~StrpDateOk(date_str) THEN "ValueError"
    ELSE IF ~StrpTimeOk(time_str) THEN "ValueError"
    ELSE "none"

\* convert_to_datetime: the wall time parsed from the page, put in the
\* current year and localized in the zone of the airport
convert_to_datetime(date_str, time_str, airport_code, now_year) ==
    LET date_obj == StrpDate(date_str)
        time_obj == StrpTime(time_str)
    IN  Localize(AirportTz(airport_code), now_year, date_obj.month, date_obj.day,
                 time_obj.hour, time_obj.minute)

\* parse_duration: the text left for the minutes after the hours were read
DurationRest(duration_str) ==
    IF StrContains(duration_str, <<"h">>)
    THEN Strip(StrSplit(duration_str, <<"h">>)[2])
    ELSE duration_str

\* parse_duration raises ValueError when int() rejects a component
parse_duration_ok(duration_str) ==
    /\ StrContains(duration_str, <<"h">>) =>
            IntOk(StrSplit(duration_str, <<"h">>)[1])
    /\ StrContains(DurationRest(duration_str), <<"m">>) =>
            IntOk(StrSplit(DurationRest(duration_str), <<"m">>)[1])

\* parse_duration without its minutes branch
parse_duration_HoursOnly(duration_str) ==
    IF StrContains(duration_str, <<"h">>)
    THEN 60 * IntVal(StrSplit(duration_str, <<"h">>)[1]) ELSE 0

\* parse_duration: the time span in minutes
parse_duration(duration_str) ==
    LET hours   == IF StrContains(duration_str, <<"h">>)
                   THEN IntVal(StrSplit(duration_str, <<"h">>)[1]) ELSE 0
        rest    == DurationRest(duration_str)
        minutes == IF StrContains(rest, <<"m">>)
                   THEN IntVal(StrSplit(rest, <<"m">>)[1]) ELSE 0
    IN  60 * hours + minutes

\* a FlightInfo that was never built
NoFlightInfo ==
    [flight_number |-> <<>>, airline |-> <<>>,
     departure_airport |-> <<>>, arrival_airport |-> <<>>,
     departure_country |-> "None", arrival_country |-> "None",
     departure_city |-> <<>>, arrival_city |-> <<>>,
     departure_terminal |-> <<>>, arrival_terminal |-> <<>>,
     departure_time |-> NoDatetime, arrival_time |-> NoDatetime,
     duration |-> 0, aircraft |-> <<>>]

\* a calendar event body that was never built
NoEvent == [summary |-> <<>>, start |-> NoDatetime, end |-> NoDatetime]

\* process_flight_info: the exception raised while the arguments of the
\* FlightInfo constructor are evaluated, in their order; "none" if none
process_flight_info_exc(raw) ==
    LET departure_airport == extract_airport_code(raw.departure_airport)
        arrival_airport   == extract_airport_code(raw.arrival_airport)
        dep_exc == convert_to_datetime_exc(raw.departure_date, raw.departure_time, departure_airport)
        arr_exc == convert_to_datetime_exc(raw.arrival_date, raw.arrival_time, arrival_airport)
    IN  IF ~extract_city_ok(departure_airport) THEN "KeyError"
        ELSE IF ~extract_city_ok(arrival_airport) THEN "KeyError"
        ELSE IF dep_exc # "none" THEN dep_exc
        ELSE IF arr_exc # "none" THEN arr_exc
        ELSE IF ~parse_duration_ok(raw.duration) THEN "ValueError"
        ELSE "none"

\* process_flight_info: the FlightInfo built from the raw fields
process_flight_info(raw, now_year) ==
    LET departure_airport == extract_airport_code(raw.departure_airport)
        arrival_airport   == extract_airport_code(raw.arrival_airport)
    IN  [flight_number |-> raw.flight_number,
         airline |-> raw.airline,
         departure_airport |-> departure_airport,
         arrival_airport |-> arrival_airport,
         departure_country |-> extract_country(raw.departure_country),
         arrival_country |-> extract_country(raw.arrival_country),
         departure_city |-> extract_city_from_airport(departure_airport),
         arrival_city |-> extract_city_from_airport(arrival_airport),
         departure_terminal |-> raw.departure_terminal,
         arrival_terminal |-> raw.arrival_terminal,
         departure_time |-> convert_to_datetime(raw.departure_date, raw.departure_time,
                                                departure_airport, now_year),
         arrival_time |-> convert_to_datetime(raw.arrival_date, raw.arrival_time,
                                              arrival_airport, now_year),
         duration |-> parse_duration(raw.duration),
         aircraft |-> raw.aircraft]

\* correct_flight_dates_inplace: both timestamps get the year of the query date
correct_flight_dates_inplace_DepartureOnly(date, processed_flight_info) ==
    [processed_flight_info EXCEPT
        !.departure_time = ReplaceYear(processed_flight_info.departure_time, date.year)]

correct_flight_dates_inplace(date, processed_flight_info) ==
    [processed_flight_info EXCEPT
        !.departure_time = ReplaceYear(processed_flight_info.departure_time, date.year),
        !.arrival_time   = ReplaceYear(processed_flight_info.arrival_time, date.year)]

\* ---------------------------------------------------------------------
\* src/datamodels.py: validation of the JSON of the AI extraction path
\* ---------------------------------------------------------------------

\* pycountry.countries.get(alpha_2=...)
PycountryGetAlpha2(code) ==
    CASE StrUpper(code) = <<"D", "E">> -> "DEU"
      [] StrUpper(code) = <<"C", "H">> -> "CHE"
      [] StrUpper(code) = <<"J", "P">> -> "JPN"
      [] OTHER -> "None"

IsAlphaChar(c) == \E k \in 1..26 : UpperChars[k] = c \/ LowerChars[k] = c

\* FlightInfo._terminal
_terminal(v) ==
    LET t == Strip(v) IN
    IF v = PyNone \/ t = <<>> THEN PyNone
    ELSE IF IsDigits(t) \/ (Len(t) = 1 /\ IsAlphaChar(t[1])) THEN <<"T", "e", "r", "m", "i", "n", "a", "l", " ">> \o t
    ELSE t

\* the date and time parts of an ISO 8601 string "YYYY-MM-DDTHH:MM[:SS][Z|+HH:MM]"
IsoParts(iso_str) ==
    LET halves == StrSplit(iso_str, <<"T">>)
        clock  == StrSplit(StrSplit(halves[2], <<"+">>)[1], <<"Z">>)[1]
    IN  [date |-> StrSplit(halves[1], <<"-">>), time |-> StrSplit(clock, <<":">>)]

\* datetime.fromisoformat accepts the string
FromIsoOk(iso_str) ==
    /\ iso_str # PyNone
    /\ Len(StrSplit(iso_str, <<"T">>)) = 2
    /\ LET p == IsoParts(iso_str) IN
        /\ Len(p.date) = 3
        /\ IsDigits(p.date[1]) /\ Len(p.date[1]) = 4 /\ DigitsVal(p.date[1]) >= 1
        /\ IsDigits(p.date[2]) /\ Len(p.date[2]) = 2
        /\ DigitsVal(p.date[2]) >= 1 /\ DigitsVal(p.date[2]) <= 12
        /\ IsDigits(p.date[3]) /\ Len(p.date[3]) = 2
        /\ DigitsVal(p.date[3]) >= 1
        /\ DigitsVal(p.date[3]) <= DaysInMonth(DigitsVal(p.date[1]), DigitsVal(p.date[2]))
        /\ Len(p.time) \in {2, 3}
        /\ \A k \in 1..Len(p.time) : IsDigits(p.time[k]) /\ Len(p.time[k]) = 2
        /\ DigitsVal(p.time[1]) <= 23
        /\ \A k \in 2..Len(p.time) : DigitsVal(p.time[k]) <= 59

\* _localize_datetime: the wall time of the string (its own offset, if any,
\* is dropped) localized in the zone of the airport
_localize_datetime(iso_str, airport_iata) ==
    LET p == IsoParts(iso_str) IN
    Localize(AirportTz(airport_iata), DigitsVal(p.date[1]), DigitsVal(p.date[2]),
             DigitsVal(p.date[3]), DigitsVal(p.time[1]), DigitsVal(p.time[2]))

\* the text of an ISO 8601 duration after "PT", and what follows its hours
IsoDurationBody(s) == Slice(s, 3, Len(s))

IsoDurationRest(s) ==
    IF StrContains(IsoDurationBody(s), <<"H">>)
    THEN StrSplit(IsoDurationBody(s), <<"H">>)[2]
    ELSE IsoDurationBody(s)

\* aniso8601.parse_duration accepts the string (forms PT#H#M, PT#H, PT#M)
IsoDurationOk(s) ==
    /\ s # PyNone
    /\ StartsWith(s, <<"P", "T">>)
    /\ IsoDurationBody(s) # <<>>
    /\ StrContains(IsoDurationBody(s), <<"H">>) =>
            IsDigits(StrSplit(IsoDurationBody(s), <<"H">>)[1])
    /\ IsoDurationRest(s) # <<>> =>
            /\ Last(IsoDurationRest(s)) = "M"
            /\ IsDigits(Slice(IsoDurationRest(s), 1, Len(IsoDurationRest(s)) - 1))

\* aniso8601.parse_duration: the time span in minutes
IsoDuration(s) ==
    LET hours   == IF StrContains(IsoDurationBody(s), <<"H">>)
                   THEN DigitsVal(StrSplit(IsoDurationBody(s), <<"H">>)[1]) ELSE 0
        rest    == IsoDurationRest(s)
        minutes == IF rest # <<>> THEN DigitsVal(Slice(rest, 1, Len(rest) - 1)) ELSE 0
    IN  60 * hours + minutes

\* FlightInfo.model_validate: the exception it raises, "none" if none.
\* _parse_times runs first (fromisoformat, then the airport table), then
\* the fields are validated
model_validate_exc(data) ==
    IF data.departure_airport \notin {PyNone, <<>>} /\ data.departure_time # PyNone
       /\ ~FromIsoOk(data.departure_time) THEN "ValueError"
    ELSE IF data.departure_airport \notin {PyNone, <<>>} /\ data.departure_time # PyNone
       /\ data.departure_airport \notin AirportCodes THEN "KeyError"
    ELSE IF data.arrival_airport \notin {PyNone, <<>>} /\ data.arrival_time # PyNone
       /\ ~FromIsoOk(data.arrival_time) THEN "ValueError"
    ELSE IF data.arrival_airport \notin {PyNone, <<>>} /\ data.arrival_time # PyNone
       /\ data.arrival_airport \notin AirportCodes THEN "KeyError"
    ELSE IF data.duration \notin {PyNone, <<>>} /\ ~IsoDurationOk(data.duration) THEN "ValueError"
    ELSE IF \/ PyNone \in {data.flight_number, data.airline, data.departure_airport,
                           data.arrival_airport, data.departure_city, data.arrival_city,
                           data.departure_time, data.arrival_time, data.duration}
            \/ data.duration = <<>>
            \/ ~FromIsoOk(data.departure_time) \/ ~FromIsoOk(data.arrival_time)
       THEN "ValueError"
    ELSE IF PycountryGetAlpha2(data.departure_country) = "None" THEN "ValueError"
    ELSE IF PycountryGetAlpha2(data.arrival_country) = "None" THEN "ValueError"
    ELSE "none"

\* FlightInfo.model_validate: the validated record (for airports given,
\* which is the case of every JSON of the model)
model_validate(data) ==
    [flight_number |-> data.flight_number,
     airline |-> data.airline,
     departure_airport |-> data.departure_airport,
     arrival_airport |-> data.arrival_airport,
     departure_country |-> PycountryGetAlpha2(data.departure_country),
     arrival_country |-> PycountryGetAlpha2(data.arrival_country),
     departure_city |-> data.departure_city,
     arrival_city |-> data.arrival_city,
     departure_terminal |-> _terminal(data.departure_terminal),
     arrival_terminal |-> _terminal(data.arrival_terminal),
     departure_time |-> _localize_datetime(data.departure_time, data.departure_airport),
     arrival_time |-> _localize_datetime(data.arrival_time, data.arrival_airport),
     duration |-> IsoDuration(data.duration),
     aircraft |-> data.aircraft]

\* ---------------------------------------------------------------------
\* Inputs: what the outside world (the site, the sheet, the clock) supplies
\* ---------------------------------------------------------------------

\* number of anchors in a search result page
MaxLinks == 2

\* number of get_flight_info calls of a direct caller
MaxCalls == 1

HttpStatuses == {200, 404, 500}

\* response.raise_for_status() raises HTTPError for 4xx and 5xx
IsErrorStatus(status) == status >= 400 /\ status < 600

FlightPrefix == <<"/", "e", "n", "/", "f", "l", "i", "g", "h", "t", "/">>

\* the href values of the anchors of a search result; PyNone is an anchor
\* without href
SearchHrefs ==
    { <<"/", "e", "n", "/", "f", "l", "i", "g", "h", "t", "/", "l", "h", "1", "-", "l", "u", "f", "t", "h", "a", "n", "s", "a">>, <<"/", "e", "n", "/", "f", "l", "i", "g", "h", "t", "/", "B", "A", "9", "-", "b", "r", "i", "t", "i", "s", "h", "-", "a", "i", "r", "w", "a", "y", "s">>,
      <<"/", "e", "n", "/", "a", "i", "r", "l", "i", "n", "e", "/", "l", "h", "1">>, PyNone }

SearchBodies == UNION { [1..n -> SearchHrefs] : n \in 0..MaxLinks }

\* the search results served during a batch of main
BatchSearchBodies ==
    { <<>>, << <<"/", "e", "n", "/", "f", "l", "i", "g", "h", "t", "/", "l", "h", "1", "-", "l", "u", "f", "t", "h", "a", "n", "s", "a">> >>,
      << <<"/", "e", "n", "/", "a", "i", "r", "l", "i", "n", "e", "/", "l", "h", "1">>, <<"/", "e", "n", "/", "f", "l", "i", "g", "h", "t", "/", "l", "h", "1", "-", "l", "u", "f", "t", "h", "a", "n", "s", "a">> >> }

FlightNumbers == { <<"L", "H", " ", "1">>, <<"b", "a", "9">>, <<"L", "H", " ", "1", "2">> }

Date(y, m, d) == [year |-> y, month |-> m, day |-> d]

NoDate == Date(0, 0, 0)

DateLE(a, b) ==
    \/ a.year < b.year
    \/ a.year = b.year /\ a.month < b.month
    \/ a.year = b.year /\ a.month = b.month /\ a.day <= b.day

\* the dates the wall clock shows
NowDates == { Date(2025, 12, 30), Date(2026, 1, 2) }

\* the dates flights are asked for
QueryDates == { Date(2025, 12, 31), Date(2026, 3, 29), Date(2028, 2, 29) }

\* itineraries a detail page shows: airport codes and local date+time texts
Itineraries ==
    { [Cc |-> << <<"F", "R", "A">>, <<"N", "R", "T">> >>, Fc |-> << <<"M", "a", "r", " ", "2", "9", ",", " ", "1", "0", ":", "0", "0">>, <<"M", "a", "r", " ", "3", "0", ",", " ", "0", "6", ":", "0", "0">> >>],
      [Cc |-> << <<"N", "R", "T">>, <<"F", "R", "A">> >>, Fc |-> << <<"M", "a", "r", " ", "2", "9", ",", " ", "1", "0", ":", "0", "0">>, <<"M", "a", "r", " ", "2", "9", ",", " ", "1", "5", ":", "0", "0">> >>],
      [Cc |-> << <<"F", "R", "A">>, <<"Z", "R", "H">> >>, Fc |-> << <<"J", "u", "l", " ", "1", "9", ",", " ", "1", "8", ":", "4", "0">>, <<"J", "u", "l", " ", "1", "9", ",", " ", "1", "9", ":", "4", "5">> >>],
      [Cc |-> << <<"F", "R", "A">>, <<"Z", "R", "H">> >>, Fc |-> << <<"D", "e", "c", " ", "3", "1", ",", " ", "2", "3", ":", "3", "0">>, <<"J", "a", "n", " ", "1", ",", " ", "0", "0", ":", "3", "5">> >>],
      [Cc |-> << <<"F", "R", "A">>, <<"Z", "R", "H">> >>, Fc |-> << <<"F", "e", "b", " ", "2", "9", ",", " ", "1", "0", ":", "0", "0">>, <<"F", "e", "b", " ", "2", "9", ",", " ", "1", "1", ":", "0", "5">> >>],
      [Cc |-> << <<"F", "R", "A">>, <<"Z", "H", "R">> >>, Fc |-> << <<"J", "u", "l", " ", "1", "9", ",", " ", "1", "8", ":", "4", "0">>, <<"J", "u", "l", " ", "1", "9", ",", " ", "1", "9", ":", "4", "5">> >>],
      [Cc |-> << <<"F", "R", "A">>, <<"Z", "R", "H">> >>, Fc |-> << <<"J", "u", "l", "y", " ", "1", "9", ",", " ", "S", "a", "t", "u", "r", "d", "a", "y", ",", " ", "1", "8", ":", "4", "0">>, <<"J", "u", "l", "y", " ", "1", "9", ",", " ", "S", "a", "t", "u", "r", "d", "a", "y", ",", " ", "1", "9", ":", "4", "5">> >>],
      [Cc |-> << <<"F", "R", "A">>, <<"Z", "R", "H">> >>, Fc |-> << <<"J", "u", "l", " ", "1", "9">>, <<"J", "u", "l", " ", "1", "9">> >>],
      [Cc |-> << <<"F", "R", "A">> >>, Fc |-> << <<"J", "u", "l", " ", "1", "9", ",", " ", "1", "8", ":", "4", "0">> >>] }

\* country texts of the two endpoints
CountryPairs ==
    { << <<"G", "e", "r", "m", "a", "n", "y">>, <<"J", "a", "p", "a", "n">> >>, << <<"F", "r", "a", "n", "k", "f", "u", "r", "t", ",", " ", "G", "e", "r", "m", "a", "n", "y">>, <<"S", "w", "i", "t", "z", "e", "r", "l", "a", "n", "d">> >>,
      << <<"G", "e", "r", "m", "a", "n", "y">>, <<"A", "t", "l", "a", "n", "t", "i", "s">> >>, << <<>>, <<"J", "a", "p", "a", "n">> >> }

DurationTexts ==
    { <<"F", "l", "i", "g", "h", "t", " ", "d", "u", "r", "a", "t", "i", "o", "n", " ", "1", "h", " ", "5", "m">>, <<"4", "5", "m">>, <<"1", "2", "h">>, <<>>, <<"1", "h", " ", "5", " ", "m", "i", "n">>,
      <<"F", "l", "i", "g", "h", "t", " ", "d", "u", "r", "a", "t", "i", "o", "n", " ", "2", "h", " ", "5", "m">>, <<"3", "h">> }

Headings ==
    { <<"L", "H", " ", "1", " ", "L", "u", "f", "t", "h", "a", "n", "s", "a", " ", "f", "r", "o", "m", " ", "F", "r", "a", "n", "k", "f", "u", "r", "t", " ", "t", "o", " ", "Z", "u", "r", "i", "c", "h", " ", "o", "n", " ", "1", "9", " ", "J", "u", "l", "y", " ", "2", "0", "2", "6">>,
      <<"L", "H", " ", "1", " ", "L", "u", "f", "t", "h", "a", "n", "s", "a", " ", "F", "r", "a", "n", "k", "f", "u", "r", "t", " ", "-", " ", "Z", "u", "r", "i", "c", "h">>, <<"F", "l", "i", "g", "h", "t">> }

\* number of get_flight_info calls of a direct caller of the AI path
MaxAICalls == 3

\* the arguments of the direct calls of the AI path
AIFlightNumbers == { <<"L", "H", " ", "1">>, <<" ", "L", "H", " ", "1">>, <<"b", "a", "9">> }

AIQueryDates == { Date(2026, 3, 29) }

\* a well-formed JSON answer of the hosted model
BaseJson ==
    [flight_number |-> <<"L", "H", "1">>, airline |-> <<"L", "u", "f", "t", "h", "a", "n", "s", "a">>,
     departure_airport |-> <<"F", "R", "A">>, arrival_airport |-> <<"Z", "R", "H">>,
     departure_city |-> <<"F", "r", "a", "n", "k", "f", "u", "r", "t">>, arrival_city |-> <<"Z", "u", "r", "i", "c", "h">>,
     departure_country |-> <<"D", "E">>, arrival_country |-> <<"c", "h">>,
     departure_terminal |-> <<"1">>, arrival_terminal |-> PyNone,
     departure_time |-> <<"2", "0", "2", "6", "-", "0", "3", "-", "2", "9", "T", "1", "0", ":", "0", "0", ":", "0", "0">>, arrival_time |-> <<"2", "0", "2", "6", "-", "0", "3", "-", "2", "9", "T", "1", "1", ":", "0", "5", ":", "0", "0", "+", "0", "2", ":", "0", "0">>,
     duration |-> <<"P", "T", "1", "H", "5", "M">>, aircraft |-> <<"A", "i", "r", "b", "u", "s", " ", "A", "3", "2", "0">>]

NoJson ==
    [flight_number |-> PyNone, airline |-> PyNone,
     departure_airport |-> PyNone, arrival_airport |-> PyNone,
     departure_city |-> PyNone, arrival_city |-> PyNone,
     departure_country |-> PyNone, arrival_country |-> PyNone,
     departure_terminal |-> PyNone, arrival_terminal |-> PyNone,
     departure_time |-> PyNone, arrival_time |-> PyNone,
     duration |-> PyNone, aircraft |-> PyNone]

\* the JSON answers of the hosted model
AIJsons ==
    { BaseJson,
      [BaseJson EXCEPT !.arrival_airport = <<"Z", "H", "R">>],
      [BaseJson EXCEPT !.departure_country = <<"X", "X">>],
      [BaseJson EXCEPT !.departure_time = <<"t", "o", "m", "o", "r", "r", "o", "w">>],
      [BaseJson EXCEPT !.airline = PyNone, !.duration = <<"6", "5", " ", "m", "i", "n", "u", "t", "e", "s">>],
      [BaseJson EXCEPT !.departure_time = <<"2", "0", "2", "5", "-", "1", "2", "-", "3", "1", "T", "2", "3", ":", "3", "0", ":", "0", "0">>,
                       !.arrival_time = <<"2", "0", "2", "5", "-", "1", "2", "-", "3", "1", "T", "0", "0", ":", "3", "5", ":", "0", "0">>, !.duration = <<"P", "T", "6", "5", "M">>] }

\* the JSON answers served during a batch of main
BatchJsons ==
    { BaseJson,
      [BaseJson EXCEPT !.arrival_airport = <<"Z", "H", "R">>],
      [BaseJson EXCEPT !.departure_time = <<"2", "0", "2", "5", "-", "1", "2", "-", "3", "1", "T", "2", "3", ":", "3", "0", ":", "0", "0">>,
                       !.arrival_time = <<"2", "0", "2", "5", "-", "1", "2", "-", "3", "1", "T", "0", "0", ":", "3", "5", ":", "0", "0">>, !.duration = <<"P", "T", "6", "5", "M">>] }

\* what one request to the hosted model ends in: an error of the service,
\* an answer without text, a text that is not JSON, or a JSON value
AIOutcomes == {"api_error", "no_text", "bad_json", "json"}

\* a well-formed detail page
BasePage ==
    [marker |-> FALSE,
     h1 |-> << <<"L", "H", " ", "1", " ", "L", "u", "f", "t", "h", "a", "n", "s", "a", " ", "f", "r", "o", "m", " ", "F", "r", "a", "n", "k", "f", "u", "r", "t", " ", "t", "o", " ", "Z", "u", "r", "i", "c", "h", " ", "o", "n", " ", "1", "9", " ", "J", "u", "l", "y", " ", "2", "0", "2", "6">> >>,
     meta |-> << <<"F", "l", "i", "g", "h", "t", " ", "L", "H", " ", "1", ",", " ", "P", "l", "a", "n", "e", " ", "A", "i", "r", "b", "u", "s", " ", "A", "3", "2", "0", ",", " ", "D", "u", "r", "a", "t", "i", "o", "n", " ", "1", "h", " ", "5", "m">> >>,
     section |-> TRUE,
     Ac |-> << << <<"G", "e", "r", "m", "a", "n", "y">>, <<"S", "w", "i", "t", "z", "e", "r", "l", "a", "n", "d">> >> >>,
     zc |-> << << <<"F", "r", "a", "n", "k", "f", "u", "r", "t">>, <<"Z", "u", "r", "i", "c", "h">> >> >>,
     Cc |-> << << <<"F", "R", "A">>, <<"Z", "R", "H">> >> >>,
     Bc |-> << << <<"1">>, <<>> >> >>,
     Fc |-> << << <<"J", "u", "l", " ", "1", "9", ",", " ", "1", "8", ":", "4", "0">>, <<"J", "u", "l", " ", "1", "9", ",", " ", "1", "9", ":", "4", "5">> >> >>,
     Hc |-> << <<"F", "l", "i", "g", "h", "t", " ", "d", "u", "r", "a", "t", "i", "o", "n", " ", "1", "h", " ", "5", "m">> >>,
     rc |-> <<>>]

NoPage ==
    [marker |-> FALSE, h1 |-> <<>>, meta |-> <<>>, section |-> FALSE,
     Ac |-> <<>>, zc |-> <<>>, Cc |-> <<>>, Bc |-> <<>>, Fc |-> <<>>,
     Hc |-> <<>>, rc |-> <<>>]

\* pages that differ from the well-formed one in their structure
StructurePages ==
    { [BasePage EXCEPT !.marker = TRUE],
      [BasePage EXCEPT !.h1 = <<>>],
      [BasePage EXCEPT !.section = FALSE],
      [BasePage EXCEPT !.Fc = <<>>],
      [BasePage EXCEPT !.Hc = <<>>, !.meta = <<>>, !.rc = << <<"A", "i", "r", "b", "u", "s", " ", "A", "3", "2", "0">> >>],
      NoPage }
    \cup { [BasePage EXCEPT !.h1 = << h >>] : h \in Headings }

\* pages that differ from the well-formed one in the values of their fields
ValuePages ==
    { [BasePage EXCEPT !.Cc = << it.Cc >>, !.Fc = << it.Fc >>, !.Ac = << c >>] :
        it \in Itineraries, c \in CountryPairs } \cup
    { [BasePage EXCEPT !.Hc = << d >>] : d \in DurationTexts }

\* the detail pages a direct caller of get_flight_info may be served
DetailPages == StructurePages \cup ValuePages

\* the detail pages served during a batch of main
BatchPages ==
    { BasePage,
      [BasePage EXCEPT !.marker = TRUE],
      [BasePage EXCEPT !.h1 = <<>>],
      [BasePage EXCEPT !.Cc = << << <<"F", "R", "A">>, <<"Z", "H", "R">> >> >>],
      [BasePage EXCEPT !.Fc = << << <<"D", "e", "c", " ", "3", "1", ",", " ", "2", "3", ":", "3", "0">>, <<"J", "a", "n", " ", "1", ",", " ", "0", "0", ":", "3", "5">> >> >>],
      [BasePage EXCEPT !.Ac = << << <<"G", "e", "r", "m", "a", "n", "y">>, <<"A", "t", "l", "a", "n", "t", "i", "s">> >> >>],
      [BasePage EXCEPT !.Hc = << <<"1", "h", " ", "5", " ", "m", "i", "n">> >>] }

\* ---------------------------------------------------------------------
\* State
\* ---------------------------------------------------------------------

VARIABLES
    impl,        \* "v1": main.py with extract_flight.py; "v2": the src package
    caller,      \* who calls get_flight_info: "main" or a "direct" caller
    now,         \* the date of the wall clock
    calls,       \* get_flight_info calls made by the direct caller
    lkPc,        \* position inside get_flight_info
    lkDate,      \* its argument date
    lkFlight,    \* its argument flight_number
    reqs,        \* the HTTP requests issued by the current call, in order
    flight_url,  \* the href of the flight link found in the search result
    response,    \* the detail page
    raw,         \* the mapping returned by parse_response
    info,        \* the FlightInfo under construction
    search_links,\* the anchors of the search result
    lkResult,    \* how the call ended: "pending", "info", "none" or "raised"
    sheet,       \* the data rows of the spreadsheet (sheet row 1 is the header)
    rows,        \* main's copy of the data rows, read at the start of the run
    i,           \* main's loop index over the data rows, from 0
    mainPc,      \* position inside main
    runs,        \* runs of main started so far
    raisedBy,    \* the step whose exception ended the run, "none" if none
    event_id,    \* main's local: the identifier the calendar returned
    events,      \* the calendar: the identifiers of its events
    event_body,  \* the event body of the calendar request of this loop turn
    next_id,     \* the identifier the calendar gives the next inserted event
    inserted,    \* history: per data row, the events inserted for it
    lost,        \* history: per data row, the sheet writes that failed after an insert
    written,     \* history: the sheet rows written so far
    cache,       \* the joblib cache of get_flight_data: records of key and value
    ai_raw,      \* the dict get_flight_data returned
    svc_log      \* history: the requests made to the hosted model for the
                 \* direct caller, in order

lookupVars == <<lkPc, lkDate, lkFlight, reqs, flight_url, response, raw, info,
                search_links, lkResult, ai_raw>>

aiVars == <<cache, svc_log>>

mainVars == <<sheet, rows, i, mainPc, runs, raisedBy, event_id, events, event_body,
              next_id, inserted, lost, written>>

vars == <<impl, caller, now, calls, lkPc, lkDate, lkFlight, reqs, flight_url,
          response, raw, info, search_links, lkResult, sheet, rows, i, mainPc,
          runs, raisedBy, event_id, events, event_body, next_id, inserted, lost,
          written, cache, ai_raw, svc_log>>

Pending == [kind |-> "pending", exc |-> "none"]

\* ---------------------------------------------------------------------
\* extract_flight.py: get_flight_info, step by step
\* ---------------------------------------------------------------------

\* the exceptions the except clause of get_flight_info catches
CaughtV1_NoHTTPError == {"RuntimeError"}

CaughtV1 == {"HTTPError", "RuntimeError"}

\* how get_flight_info ends when exc is raised inside its try block
RaisedV1(exc) ==
    IF exc \in CaughtV1 THEN [kind |-> "none", exc |-> exc]
    ELSE [kind |-> "raised", exc |-> exc]

\* the filter of soup.find in make_flight_info_request
LinkMatches_NoPrefix(href, flight_number) ==
    /\ href # PyNone
    /\ href # <<>>
    /\ StrContains(StrLower(href), StrRemove(StrLower(flight_number), <<" ">>))

LinkMatches(href, flight_number) ==
    /\ href # PyNone
    /\ href # <<>>
    /\ StartsWith(href, FlightPrefix)
    /\ StrContains(StrLower(href), StrRemove(StrLower(flight_number), <<" ">>))

\* soup.find: the first matching anchor, 0 if there is none
FindFlightLink(links, flight_number) ==
    IF \E k \in 1..Len(links) : LinkMatches(links[k], flight_number)
    THEN CHOOSE k \in 1..Len(links) :
            /\ LinkMatches(links[k], flight_number)
            /\ \A j \in 1..(k - 1) : ~LinkMatches(links[j], flight_number)
    ELSE 0

\* the entry of get_flight_info: nothing of an earlier call is kept
EnterLookup(date, flight_number) ==
    /\ lkPc' = IF impl = "v1" THEN "search" ELSE "ai_fetch"
    /\ lkDate' = date
    /\ lkFlight' = flight_number
    /\ reqs' = <<>>
    /\ flight_url' = <<>>
    /\ response' = NoPage
    /\ raw' = EmptyRaw
    /\ info' = NoFlightInfo
    /\ search_links' = <<>>
    /\ ai_raw' = NoJson
    /\ lkResult' = Pending

\* make_flight_info_request, first half: the search request and the link
Search ==
    /\ lkPc = "search"
    /\ \E status \in HttpStatuses,
          links \in (IF caller = "direct" THEN SearchBodies ELSE BatchSearchBodies) :
        LET k == FindFlightLink(links, lkFlight) IN
        /\ reqs' = Append(reqs, [kind |-> "search", fn |-> StrUpper(lkFlight), status |-> status])
        /\ search_links' = IF IsErrorStatus(status) THEN <<>> ELSE links
        /\ IF IsErrorStatus(status)
           THEN /\ lkResult' = RaisedV1("HTTPError")
                /\ lkPc' = "return"
                /\ UNCHANGED flight_url
           ELSE IF k = 0
           THEN /\ lkResult' = RaisedV1("RuntimeError")
                /\ lkPc' = "return"
                /\ UNCHANGED flight_url
           ELSE /\ flight_url' = links[k]
                /\ lkPc' = "detail"
                /\ UNCHANGED lkResult
    /\ UNCHANGED <<impl, caller, now, calls, lkDate, lkFlight, response, raw, info, ai_raw>>
    /\ UNCHANGED mainVars
    /\ UNCHANGED aiVars

\* make_flight_info_request, second half: the detail page of the date
Detail ==
    /\ lkPc = "detail"
    /\ \E status \in HttpStatuses,
          page \in (IF caller = "direct" THEN DetailPages ELSE BatchPages) :
        /\ reqs' = Append(reqs, [kind |-> "detail", fn |-> flight_url, status |-> status])
        /\ IF IsErrorStatus(status)
           THEN /\ lkResult' = RaisedV1("HTTPError")
                /\ lkPc' = "return"
                /\ UNCHANGED response
           ELSE /\ response' = page
                /\ lkPc' = "parse"
                /\ UNCHANGED lkResult
    /\ UNCHANGED <<impl, caller, now, calls, lkDate, lkFlight, flight_url, raw, info, search_links, ai_raw>>
    /\ UNCHANGED mainVars
    /\ UNCHANGED aiVars

\* flight_info = parse_response(response); if not flight_info: return
Parse ==
    /\ lkPc = "parse"
    /\ LET r == parse_response(response) IN
        IF r.exc # "none"
        THEN /\ lkResult' = RaisedV1(r.exc)
             /\ lkPc' = "return"
             /\ UNCHANGED raw
        ELSE IF r.empty
        THEN /\ lkResult' = [kind |-> "none", exc |-> "none"]
             /\ lkPc' = "return"
             /\ UNCHANGED raw
        ELSE /\ raw' = r.raw
             /\ lkPc' = "process"
             /\ UNCHANGED lkResult
    /\ UNCHANGED <<impl, caller, now, calls, lkDate, lkFlight, reqs, flight_url, response, info, search_links, ai_raw>>
    /\ UNCHANGED mainVars
    /\ UNCHANGED aiVars

\* processed_flight_info = process_flight_info(flight_info)
Process ==
    /\ lkPc = "process"
    /\ LET exc == process_flight_info_exc(raw) IN
        IF exc # "none"
        THEN /\ lkResult' = RaisedV1(exc)
             /\ lkPc' = "return"
             /\ UNCHANGED info
        ELSE /\ info' = process_flight_info(raw, now.year)
             /\ lkPc' = "correct"
             /\ UNCHANGED lkResult
    /\ UNCHANGED <<impl, caller, now, calls, lkDate, lkFlight, reqs, flight_url, response, raw, search_links, ai_raw>>
    /\ UNCHANGED mainVars
    /\ UNCHANGED aiVars

\* correct_flight_dates_inplace(date, processed_flight_info); return it
Correct ==
    /\ lkPc = "correct"
    /\ IF ReplaceYearOk(info.departure_time, lkDate.year)
          /\ ReplaceYearOk(info.arrival_time, lkDate.year)
       THEN /\ info' = correct_flight_dates_inplace(lkDate, info)
            /\ lkResult' = [kind |-> "info", exc |-> "none"]
       ELSE /\ lkResult' = RaisedV1("ValueError")
            /\ UNCHANGED info
    /\ lkPc' = "return"
    /\ UNCHANGED <<impl, caller, now, calls, lkDate, lkFlight, reqs, flight_url, response, raw, search_links, ai_raw>>
    /\ UNCHANGED mainVars
    /\ UNCHANGED aiVars

\* ---------------------------------------------------------------------
\* src/extract_flight_ai.py: get_flight_info, step by step
\* ---------------------------------------------------------------------

\* the exceptions the except clause of get_flight_info catches
CaughtV2 == {"ValueError", "KeyError", "TypeError"}

RaisedV2(exc) ==
    IF exc \in CaughtV2 THEN [kind |-> "none", exc |-> exc]
    ELSE [kind |-> "raised", exc |-> exc]

\* the arguments get_flight_info passes to get_flight_data; they are the
\* key of the joblib cache (the date stands for its "%Y-%m-%d" text)
CacheKey(date, flight_number) == <<Strip(flight_number), date>>

\* the values the cache holds for a key
CachedValues_Never(store, key) == {}

CachedValues(store, key) == { c.value : c \in { e \in store : e.key = key } }

\* the exception get_flight_data raises for an outcome of the request
OutcomeExc(outcome) ==
    CASE outcome = "api_error" -> "APIError"
      [] outcome = "no_text" -> "ValueError"
      [] outcome = "bad_json" -> "ValueError"
      [] outcome = "json" -> "none"

\* raw = get_flight_data(flight_number.strip(), flight_date): answered from
\* the cache when the key is there; otherwise the hosted model is asked
\* and the result is stored only if the function returns
GetFlightData ==
    /\ lkPc = "ai_fetch"
    /\ LET key == CacheKey(lkDate, lkFlight) IN
        IF CachedValues(cache, key) # {}
        THEN /\ ai_raw' \in CachedValues(cache, key)
             /\ lkPc' = "ai_validate"
             /\ UNCHANGED <<cache, svc_log, lkResult>>
        ELSE \E outcome \in AIOutcomes,
                json \in (IF caller = "direct" THEN AIJsons ELSE BatchJsons) :
             /\ outcome # "json" => json = BaseJson
             /\ svc_log' = IF caller = "direct"
                            THEN Append(svc_log, [key |-> key, outcome |-> outcome])
                            ELSE svc_log
             /\ IF OutcomeExc(outcome) # "none"
                THEN /\ lkResult' = RaisedV2(OutcomeExc(outcome))
                     /\ lkPc' = "return"
                     /\ UNCHANGED <<cache, ai_raw>>
                ELSE /\ cache' = cache \cup { [key |-> key, value |-> json] }
                     /\ ai_raw' = json
                     /\ lkPc' = "ai_validate"
                     /\ UNCHANGED lkResult
    /\ UNCHANGED <<impl, caller, now, calls, lkDate, lkFlight, reqs, flight_url, response,
                   raw, info, search_links>>
    /\ UNCHANGED mainVars

\* return FlightInfo.model_validate(raw)
Validate ==
    /\ lkPc = "ai_validate"
    /\ LET exc == model_validate_exc(ai_raw) IN
        IF exc # "none"
        THEN /\ lkResult' = RaisedV2(exc)
             /\ UNCHANGED info
        ELSE /\ info' = model_validate(ai_raw)
             /\ lkResult' = [kind |-> "info", exc |-> "none"]
    /\ lkPc' = "return"
    /\ UNCHANGED <<impl, caller, now, calls, lkDate, lkFlight, reqs, flight_url, response,
                   raw, search_links, ai_raw>>
    /\ UNCHANGED mainVars
    /\ UNCHANGED aiVars

\* ---------------------------------------------------------------------
\* A caller that uses get_flight_info directly
\* ---------------------------------------------------------------------

DirectCall ==
    /\ caller = "direct"
    /\ lkPc = "idle"
    /\ calls < (IF impl = "v1" THEN MaxCalls ELSE MaxAICalls)
    /\ calls' = calls + 1
    /\ now' \in { d \in NowDates : DateLE(now, d) }
    /\ \E date \in (IF impl = "v1" THEN QueryDates ELSE AIQueryDates),
          flight_number \in (IF impl = "v1" THEN FlightNumbers ELSE AIFlightNumbers) :
        EnterLookup(date, flight_number)
    /\ UNCHANGED <<impl, caller>>
    /\ UNCHANGED mainVars
    /\ UNCHANGED aiVars

DirectReturn ==
    /\ caller = "direct"
    /\ lkPc = "return"
    /\ lkPc' = "idle"
    /\ UNCHANGED <<impl, caller, now, calls, lkDate, lkFlight, reqs, flight_url,
                   response, raw, info, search_links, lkResult, ai_raw>>
    /\ UNCHANGED mainVars
    /\ UNCHANGED aiVars

\* no call of get_flight_info is under way
InitIdleLookup ==
    /\ calls = 0
    /\ lkPc = "idle"
    /\ lkDate = NoDate
    /\ lkFlight = <<>>
    /\ reqs = <<>>
    /\ flight_url = <<>>
    /\ response = NoPage
    /\ raw = EmptyRaw
    /\ info = NoFlightInfo
    /\ search_links = <<>>
    /\ ai_raw = NoJson
    /\ lkResult = Pending

\* main is not running and there is no sheet
InitNoMain ==
    /\ sheet = <<>>
    /\ rows = <<>>
    /\ i = 0
    /\ mainPc = "idle"
    /\ runs = 0
    /\ raisedBy = "none"
    /\ event_id = 0
    /\ events = {}
    /\ event_body = NoEvent
    /\ next_id = 1
    /\ inserted = <<>>
    /\ lost = <<>>
    /\ written = {}

InitLookup ==
    /\ impl = "v1"
    /\ caller = "direct"
    /\ now \in NowDates
    /\ InitIdleLookup
    /\ InitNoMain
    /\ cache = {}
    /\ svc_log = <<>>

NextLookup == DirectCall \/ Search \/ Detail \/ Parse \/ Process \/ Correct \/ DirectReturn

SpecLookup == InitLookup /\ [][NextLookup]_vars

\* ---------------------------------------------------------------------
\* The sinks: calendar_client.py / sheets_client.py (and their copies in main.py)
\* ---------------------------------------------------------------------

\* the civil date of a day count since the epoch, searched around year y
CivilFromDays(days, y) ==
    CHOOSE c \in { Date(yy, m, d) : yy \in (y - 1)..(y + 1), m \in 1..12, d \in 1..31 } :
        /\ c.day <= DaysInMonth(c.year, c.month)
        /\ DaysSinceEpoch(c.year, c.month, c.day) = days

\* dt + timedelta(minutes): wall clock arithmetic, tzinfo and offset are kept
AddMinutes(dt, minutes) ==
    LET total == (DaysSinceEpoch(dt.year, dt.month, dt.day) * 24 + dt.hour) * 60
                 + dt.minute + minutes
        days  == total \div 1440
        c     == CivilFromDays(days, dt.year)
    IN  [dt EXCEPT !.year = c.year, !.month = c.month, !.day = c.day,
                   !.hour = (total % 1440) \div 60, !.minute = total % 60]

\* the end of the calendar event: src/calendar_client.py falls back to
\* start + duration when the arrival is not after the departure; the copy
\* in main.py uses the arrival as it is
EventEnd(version, flight_info) ==
    IF version = "v2" /\ Instant(flight_info.arrival_time) <= Instant(flight_info.departure_time)
    THEN AddMinutes(flight_info.departure_time, flight_info.duration)
    ELSE flight_info.arrival_time

\* the event body create_or_update_gcal_event sends
EventBody(version, flight_info) ==
    [summary |-> <<flight_info.departure_airport, flight_info.arrival_airport,
                   flight_info.flight_number>>,
     start |-> flight_info.departure_time,
     end |-> EventEnd(version, flight_info)]

\* as_gcal_description reads the flag and name of both country records
DescriptionOk(flight_info) ==
    flight_info.departure_country # "None" /\ flight_info.arrival_country # "None"

\* create_or_update_gcal_event: update when an identifier is given, insert otherwise
IsUpdate(given_id) == given_id # 0

\* the row main writes back: the identifier returned by the calendar and
\* the fields of the FlightInfo; Date and Flight # keep their values
NewRow_KeepsOldId(row, flight_info, new_id) ==
    [row EXCEPT !.Departure_Airport = flight_info.departure_airport,
                !.Arrival_Airport = flight_info.arrival_airport]

NewRow(row, flight_info, new_id) ==
    [row EXCEPT !.gcal_event_id = new_id,
                !.Departure_Airport = flight_info.departure_airport,
                !.Arrival_Airport = flight_info.arrival_airport]

\* the row index that does not count the header row
SheetRow_HeaderUncounted(idx) == idx + 1

\* sheet_row = i + 2: row 1 is the header, row 2 the first data row
\* (main.py counts the header in its loop index and writes row index + 1,
\* which is the same row)
SheetRow(idx) == idx + 2

\* ---------------------------------------------------------------------
\* main
\* ---------------------------------------------------------------------

\* number of data rows of the sheet
MaxRows == 2

\* number of runs of main
MaxRuns == 2

\* the rows a sheet is made of; has_id tells whether the row already has
\* a calendar event
RowChoices ==
    { [Date |-> Date(2025, 12, 31), Flight |-> <<"L", "H", " ", "1">>, has_id |-> FALSE],
      [Date |-> Date(2026, 3, 29), Flight |-> <<"L", "H", " ", "1">>, has_id |-> TRUE],
      [Date |-> NoDate, Flight |-> <<"L", "H", " ", "1">>, has_id |-> FALSE],
      [Date |-> Date(2026, 3, 29), Flight |-> <<>>, has_id |-> FALSE] }

SheetOf(choice) ==
    [r \in 1..Len(choice) |->
        [Date |-> choice[r].Date, Flight |-> choice[r].Flight,
         gcal_event_id |-> IF choice[r].has_id THEN r ELSE 0,
         Departure_Airport |-> <<>>, Arrival_Airport |-> <<>>]]

\* the start of a run: the rows are read from the sheet. When the read
\* fails main.py lets the exception through; in the src package
\* fetch_flights_google_doc returns [] and rows[0] raises IndexError
StartRun ==
    /\ caller = "main"
    /\ mainPc \in {"idle", "done", "raised"}
    /\ runs < MaxRuns
    /\ runs' = runs + 1
    /\ now' \in { d \in NowDates : DateLE(now, d) }
    /\ i' = 0
    /\ event_id' = 0
    /\ \E ok \in BOOLEAN :
        IF ok
        THEN /\ rows' = sheet
             /\ mainPc' = "loop"
             /\ raisedBy' = "none"
        ELSE /\ rows' = <<>>
             /\ mainPc' = "raised"
             /\ raisedBy' = "fetch"
    /\ UNCHANGED <<impl, caller, calls, sheet, events, event_body, next_id, inserted,
                   lost, written>>
    /\ UNCHANGED lookupVars
    /\ UNCHANGED aiVars

\* one turn of the loop up to the call of get_flight_info
RowStep ==
    /\ mainPc = "loop"
    /\ IF i >= Len(rows)
       THEN /\ mainPc' = "done"
            /\ UNCHANGED i
            /\ UNCHANGED lookupVars
       ELSE LET row == rows[i + 1] IN
            IF row.Date = NoDate \/ row.Flight = <<>> \/ row.Flight = PyNone
            THEN /\ i' = i + 1
                 /\ UNCHANGED mainPc
                 /\ UNCHANGED lookupVars
            ELSE IF DateLE(row.Date, now)
            THEN /\ i' = i + 1
                 /\ UNCHANGED mainPc
                 /\ UNCHANGED lookupVars
            ELSE /\ mainPc' = "lookup"
                 /\ UNCHANGED i
                 /\ EnterLookup(row.Date, row.Flight)
    /\ UNCHANGED <<impl, caller, now, calls, sheet, rows, runs, raisedBy, event_id,
                   events, event_body, next_id, inserted, lost, written>>
    /\ UNCHANGED aiVars

\* get_flight_info returns to main, or its exception ends the run; of the
\* call only the returned FlightInfo lives on
LookupReturn ==
    /\ mainPc = "lookup"
    /\ lkPc = "return"
    /\ lkPc' = "idle"
    /\ lkDate' = NoDate
    /\ lkFlight' = <<>>
    /\ reqs' = <<>>
    /\ flight_url' = <<>>
    /\ response' = NoPage
    /\ raw' = EmptyRaw
    /\ search_links' = <<>>
    /\ ai_raw' = NoJson
    /\ lkResult' = Pending
    /\ CASE lkResult.kind = "raised" ->
                /\ mainPc' = "raised"
                /\ raisedBy' = "lookup"
                /\ UNCHANGED i
         [] lkResult.kind = "none" ->
                /\ mainPc' = "loop"
                /\ i' = i + 1
                /\ UNCHANGED raisedBy
         [] lkResult.kind = "info" ->
                /\ mainPc' = "calendar"
                /\ UNCHANGED <<i, raisedBy>>
    /\ UNCHANGED <<impl, caller, now, calls, info, sheet, rows, runs, event_id,
                   events, event_body, next_id, inserted, lost, written>>
    /\ UNCHANGED aiVars

\* event_id = create_or_update_gcal_event(flight_info, row["gcal_event_id"])
CalendarWrite ==
    /\ mainPc = "calendar"
    /\ LET given == rows[i + 1].gcal_event_id
           body  == EventBody(impl, info)
       IN
       \E ok \in BOOLEAN :
        IF ~DescriptionOk(info) \/ ~ok
        THEN /\ mainPc' = "raised"
             /\ raisedBy' = "calendar"
             /\ UNCHANGED <<event_id, events, event_body, next_id, inserted>>
             /\ info' = NoFlightInfo
        ELSE IF IsUpdate(given)
        THEN /\ events' = events \cup {given}
             /\ event_body' = body
             /\ event_id' = given
             /\ mainPc' = "sheet"
             /\ UNCHANGED <<raisedBy, next_id, inserted, info>>
        ELSE /\ events' = events \cup {next_id}
             /\ event_body' = body
             /\ event_id' = next_id
             /\ next_id' = next_id + 1
             /\ inserted' = [inserted EXCEPT ![i + 1] = @ + 1]
             /\ mainPc' = "sheet"
             /\ UNCHANGED <<raisedBy, info>>
    /\ UNCHANGED <<impl, caller, now, calls, sheet, rows, i, runs, lost, written>>
    /\ UNCHANGED <<lkPc, lkDate, lkFlight, reqs, flight_url, response, raw, search_links,
                   lkResult, ai_raw>>
    /\ UNCHANGED aiVars

\* update_row_with_formulas(sheet_row, new_row); the turn of the loop ends
\* and with it the life of flight_info
SheetWrite ==
    /\ mainPc = "sheet"
    /\ LET sheet_row == SheetRow(i) IN
       \E ok \in BOOLEAN :
        IF ok
        THEN /\ sheet' = [sheet EXCEPT ![sheet_row - 1] = NewRow(rows[i + 1], info, event_id)]
             /\ written' = written \cup {sheet_row}
             /\ i' = i + 1
             /\ mainPc' = "loop"
             /\ UNCHANGED <<raisedBy, lost>>
        ELSE /\ mainPc' = "raised"
             /\ raisedBy' = "sheet"
             /\ lost' = [lost EXCEPT ![i + 1] =
                            IF IsUpdate(rows[i + 1].gcal_event_id) THEN @ ELSE @ + 1]
             /\ UNCHANGED <<sheet, written, i>>
    /\ info' = NoFlightInfo
    /\ event_body' = NoEvent
    /\ UNCHANGED <<impl, caller, now, calls, rows, runs, event_id, events, next_id, inserted>>
    /\ UNCHANGED <<lkPc, lkDate, lkFlight, reqs, flight_url, response, raw, search_links,
                   lkResult, ai_raw>>
    /\ UNCHANGED aiVars

InitMain ==
    /\ cache = {}
    /\ svc_log = <<>>
    /\ caller = "main"
    /\ now \in NowDates
    /\ InitIdleLookup
    /\ \E n \in 1..MaxRows : \E choice \in [1..n -> RowChoices] :
        /\ sheet = SheetOf(choice)
        /\ events = { q \in 1..n : choice[q].has_id }
        /\ next_id = n + 1
        /\ inserted = [r \in 1..n |-> 0]
        /\ lost = [r \in 1..n |-> 0]
    /\ rows = <<>>
    /\ i = 0
    /\ mainPc = "idle"
    /\ runs = 0
    /\ raisedBy = "none"
    /\ event_id = 0
    /\ event_body = NoEvent
    /\ written = {}

\* the src package: src/main.py with the AI extraction path
Init == impl = "v2" /\ InitMain

Next ==
    \/ StartRun \/ RowStep \/ LookupReturn \/ CalendarWrite \/ SheetWrite
    \/ GetFlightData \/ Validate

Spec == Init /\ [][Next]_vars

\* main.py with the scraping path of extract_flight.py
InitV1 == impl = "v1" /\ InitMain

NextV1 ==
    \/ StartRun \/ RowStep \/ LookupReturn \/ CalendarWrite \/ SheetWrite
    \/ Search \/ Detail \/ Parse \/ Process \/ Correct

SpecV1 == InitV1 /\ [][NextV1]_vars

InitAI ==
    /\ impl = "v2"
    /\ caller = "direct"
    /\ now \in NowDates
    /\ InitIdleLookup
    /\ InitNoMain
    /\ cache = {}
    /\ svc_log = <<>>

NextAI == DirectCall \/ GetFlightData \/ Validate \/ DirectReturn

SpecAI == InitAI /\ [][NextAI]_vars

\* main with either implementation: the src package or main.py
InitBoth == impl \in {"v1", "v2"} /\ InitMain

NextBoth ==
    \/ StartRun \/ RowStep \/ LookupReturn \/ CalendarWrite \/ SheetWrite
    \/ Search \/ Detail \/ Parse \/ Process \/ Correct
    \/ GetFlightData \/ Validate

SpecBoth == InitBoth /\ [][NextBoth]_vars

\* ---------------------------------------------------------------------
\* Properties
\* ---------------------------------------------------------------------

\* get_flight_info has returned a FlightInfo
ReturnedInfo == lkPc \in {"return", "idle"} /\ lkResult.kind = "info"

\* C1: a failure of any kind while looking up one flight is turned into a
\* null result inside get_flight_info, and the batch of main is never
\* aborted by the failure of one flight.
C1_LookupFailureNeverAbortsBatch ==
    /\ lkResult.kind # "raised"
    /\ raisedBy # "lookup"

\* C2: a detail page with the "No flights are available" marker, or without
\* a primary heading, makes parse_response return the empty mapping and
\* get_flight_info return null without raising; normalization is not
\* attempted, and main goes on to the next row with no calendar write and
\* no sheet write.
C2_NoDataIsNullNotError ==
    [][ /\ (lkPc = "parse" /\ (response.marker \/ response.h1 = <<>>)) =>
            /\ lkPc' = "return"
            /\ lkResult' = [kind |-> "none", exc |-> "none"]
            /\ raw' = EmptyRaw
            /\ info' = NoFlightInfo
        /\ (mainPc = "lookup" /\ lkPc = "return" /\ Len(reqs) = 2 /\ reqs[2].status < 400
                /\ (response.marker \/ response.h1 = <<>>)) =>
            /\ mainPc' = "loop"
            /\ i' = i + 1
            /\ events' = events
            /\ inserted' = inserted
            /\ sheet' = sheet
            /\ written' = written
      ]_vars

C2_Witness ==
    /\ mainPc = "lookup"
    /\ lkPc = "return"
    /\ Len(reqs) = 2
    /\ response.marker
    /\ lkResult.kind = "none"

\* C3: within one call of get_flight_info the search endpoint and the
\* detail page are each requested at most once, the detail page only after
\* a successful search, and an HTTP error status on either request ends
\* the call with a null result, with no further request.
C3_HttpErrorAbandonsNoRetry ==
    /\ Len(reqs) <= 2
    /\ \A k \in 1..Len(reqs) : reqs[k].kind = (IF k = 1 THEN "search" ELSE "detail")
    /\ \A k \in 1..Len(reqs) :
        reqs[k].status >= 400 =>
            /\ k = Len(reqs)
            /\ lkPc \in {"return", "idle"}
            /\ lkResult.kind = "none"

C3_Witness ==
    /\ lkPc = "return"
    /\ Len(reqs) = 2
    /\ reqs[2].status >= 400
    /\ lkResult.kind = "none"

\* the search result has no link whose target starts with the flight path
\* prefix and contains the lower-cased designator without spaces
NoLinkForFlight ==
    \A k \in 1..Len(search_links) :
        ~ /\ search_links[k] # PyNone
          /\ StartsWith(search_links[k], <<"/", "e", "n", "/", "f", "l", "i", "g", "h", "t", "/">>)
          /\ StrContains(StrLower(search_links[k]), StrRemove(StrLower(lkFlight), <<" ">>))

\* C4: when the search succeeded and its result has no link for the
\* flight, no detail page is requested and get_flight_info returns null
\* (flight not found).
C4_FlightNotFound ==
    (reqs # <<>> /\ reqs[1].status < 400 /\ NoLinkForFlight) =>
        /\ Len(reqs) = 1
        /\ lkPc \in {"return", "idle"}
        /\ lkResult = [kind |-> "none", exc |-> "RuntimeError"]

C4_Witness ==
    /\ lkPc = "return"
    /\ lkResult.exc = "RuntimeError"
    /\ \E k \in 1..Len(search_links) :
        /\ search_links[k] # PyNone
        /\ StrContains(StrLower(search_links[k]), StrRemove(StrLower(lkFlight), <<" ">>))

\* C5: every FlightInfo returned by get_flight_info is complete: both
\* country records are resolved, both cities and both timestamps are set.
C5_NoPartialFlightInfo ==
    ReturnedInfo =>
        /\ info.departure_country # "None"
        /\ info.arrival_country # "None"
        /\ info.departure_city # <<>>
        /\ info.arrival_city # <<>>
        /\ info.departure_time # NoDatetime
        /\ info.arrival_time # NoDatetime

\* C6: every FlightInfo returned by get_flight_info arrives no earlier
\* than it departs, compared as instants, after the year correction.
C6_ArrivalNotBeforeDeparture ==
    ReturnedInfo => Instant(info.arrival_time) >= Instant(info.departure_time)

OtherFields ==
    {"flight_number", "airline", "departure_airport", "arrival_airport",
     "departure_country", "arrival_country", "departure_city", "arrival_city",
     "departure_terminal", "arrival_terminal", "duration", "aircraft"}

WallFields == {"month", "day", "hour", "minute", "zone"}

\* C7: the year correction sets the year of both timestamps to the year of
\* the query date and changes nothing else: month, day, hour, minute and
\* zone of both timestamps and every other field stay as they were.
C7_YearCorrectionFrame ==
    [][ lkPc = "correct" =>
            /\ lkResult'.kind = "info"
            /\ info'.departure_time.year = lkDate.year
            /\ info'.arrival_time.year = lkDate.year
            /\ \A f \in WallFields :
                /\ info'.departure_time[f] = info.departure_time[f]
                /\ info'.arrival_time[f] = info.arrival_time[f]
            /\ \A f \in OtherFields : info'[f] = info[f]
      ]_vars

C7_Witness ==
    /\ lkPc = "return"
    /\ lkResult.kind = "info"
    /\ lkDate.year # now.year
    /\ info.departure_time.year = lkDate.year
    /\ info.arrival_time.year = lkDate.year

\* the offset the zone of dt has at the wall time of dt in year y
OffsetInYear(dt, y) == ZoneOffset(dt.zone, y, dt.month, dt.day, dt.hour, dt.minute)

\* C8: in every FlightInfo returned by get_flight_info each timestamp is in
\* the zone of its own airport and carries the UTC offset that zone has at
\* that local date and time in the query year.
C8_OffsetOfQueryYear ==
    ReturnedInfo =>
        /\ info.departure_time.zone = AirportTz(info.departure_airport)
        /\ info.arrival_time.zone = AirportTz(info.arrival_airport)
        /\ info.departure_time.off = OffsetInYear(info.departure_time, lkDate.year)
        /\ info.arrival_time.off = OffsetInYear(info.arrival_time, lkDate.year)

\* the row holds the identifier of an event that main inserted
StoredInsert(r) == IF sheet[r].gcal_event_id > Len(sheet) THEN 1 ELSE 0

\* the event of the row was inserted in this loop turn and its identifier
\* is not yet written to the sheet
PendingInsert(r) ==
    IF mainPc = "sheet" /\ i + 1 = r /\ rows[r].gcal_event_id = 0 THEN 1 ELSE 0

\* C9 as stated: over any number of runs of main, also with failing sheet
\* writes, at most one calendar event is created per flight row.
C9_AtMostOneEventPerRow ==
    \A r \in 1..Len(sheet) : inserted[r] <= 1

\* C9 as amended: a row without identifier gets an inserted event, a row
\* with an identifier gets that event updated and none inserted, and the
\* identifier returned is written into the row; so the events created for
\* a row are one for the identifier it holds plus one for every run in
\* which its sheet write failed after the insert.
C9_UpsertUpToLostWrites ==
    /\ [](\A r \in 1..Len(sheet) :
            /\ inserted[r] = StoredInsert(r) + PendingInsert(r) + lost[r]
            /\ inserted[r] <= 1 + lost[r])
    /\ [][ /\ (mainPc = "calendar" /\ mainPc' = "sheet" /\ rows[i + 1].gcal_event_id # 0) =>
                /\ event_id' = rows[i + 1].gcal_event_id
                /\ inserted' = inserted
                /\ next_id' = next_id
           /\ (mainPc = "calendar" /\ mainPc' = "sheet" /\ rows[i + 1].gcal_event_id = 0) =>
                /\ event_id' \notin events
                /\ events' = events \cup {event_id'}
                /\ inserted'[i + 1] = inserted[i + 1] + 1
           /\ (mainPc = "sheet" /\ mainPc' = "loop") =>
                sheet'[i + 1].gcal_event_id = event_id
         ]_vars

C9_Witness ==
    /\ runs = 2
    /\ mainPc = "sheet"
    /\ rows[i + 1].gcal_event_id > Len(sheet)
    /\ event_id = rows[i + 1].gcal_event_id
    /\ inserted[i + 1] = 1

\* C10 as stated: the hosted model is asked at most once for each pair of
\* flight number and date, also when the first call failed.
C10_AtMostOneRequestPerKey ==
    \A a, b \in 1..Len(svc_log) : svc_log[a].key = svc_log[b].key => a = b

\* C10 as amended: once a request for a pair has returned JSON, the pair
\* is in the cache and the hosted model is never asked for it again, also
\* when validating that JSON fails; a request that failed stores nothing.
C10_NoRequestAfterStoredResult ==
    /\ \A a, b \in 1..Len(svc_log) :
        (a < b /\ svc_log[a].key = svc_log[b].key) => svc_log[a].outcome # "json"
    /\ \A c \in cache :
        \E a \in 1..Len(svc_log) : svc_log[a].key = c.key /\ svc_log[a].outcome = "json"
    /\ \A a \in 1..Len(svc_log) :
        svc_log[a].outcome = "json" => \E c \in cache : c.key = svc_log[a].key

C10_Witness ==
    /\ calls = 2
    /\ lkPc = "return"
    /\ lkResult.kind = "none"
    /\ Len(svc_log) = 1
    /\ svc_log[1].outcome = "json"
    /\ svc_log[1].key = CacheKey(lkDate, lkFlight)

\* get_flight_info from process_flight_info on: what normalizing the raw
\* field set gives when the wall clock shows the year now_year
NormalizeOutcome(raw_flight_info, date, now_year) ==
    LET exc == process_flight_info_exc(raw_flight_info) IN
    IF exc # "none" THEN [kind |-> "raised", exc |-> exc, info |-> NoFlightInfo]
    ELSE LET processed == process_flight_info(raw_flight_info, now_year) IN
         IF ReplaceYearOk(processed.departure_time, date.year)
               /\ ReplaceYearOk(processed.arrival_time, date.year)
         THEN [kind |-> "info", exc |-> "none",
               info |-> correct_flight_dates_inplace(date, processed)]
         ELSE [kind |-> "raised", exc |-> "ValueError", info |-> NoFlightInfo]

\* C11: normalizing the same raw field set with the same query date gives
\* the same outcome and the same FlightInfo whatever the wall-clock year
\* is; the lookup that ran is one of these normalizations.
C11_NormalizationIgnoresNow ==
    (lkPc = "return" /\ raw # EmptyRaw) =>
        /\ \A nd \in NowDates :
            NormalizeOutcome(raw, lkDate, nd.year) = NormalizeOutcome(raw, lkDate, now.year)
        /\ lkResult.kind = "info" => info = NormalizeOutcome(raw, lkDate, now.year).info

\* the terminal rule of the normalizer: blank gives null, a bare number
\* or a single letter v gives "Terminal v", any other text is kept
TerminalRule(v) ==
    IF v = PyNone \/ Strip(v) = <<>> THEN PyNone
    ELSE IF IsDigits(v) \/ (Len(v) = 1 /\ IsAlphaChar(v[1])) THEN <<"T", "e", "r", "m", "i", "n", "a", "l", " ">> \o v
    ELSE v

\* the raw terminals the lookup under way normalizes
RawTerminals ==
    IF impl = "v1" THEN <<raw.departure_terminal, raw.arrival_terminal>>
    ELSE <<ai_raw.departure_terminal, ai_raw.arrival_terminal>>

\* C12: the terminals of every FlightInfo that get_flight_info returns to
\* main for the sinks are the raw terminals normalized by the terminal
\* rule.
C12_TerminalNormalized ==
    (lkPc = "return" /\ lkResult.kind = "info") =>
        /\ info.departure_terminal = TerminalRule(RawTerminals[1])
        /\ info.arrival_terminal = TerminalRule(RawTerminals[2])

\* largest number of hours and of minutes written in a duration text
MaxDurationPart == 12

\* the decimal text of a natural number
RECURSIVE NatText(_)
NatText(n) ==
    IF n < 10 THEN << DigitChars[n + 1] >>
    ELSE NatText(n \div 10) \o << DigitChars[(n % 10) + 1] >>

\* a component of a duration text is a number, or is absent (negative)
DurationParts == (0 - 1)..MaxDurationPart

IsAbsent(part) == part < 0

PartMinutes(part) == IF IsAbsent(part) THEN 0 ELSE part

\* the text "{H}h {M}m" with either component optionally absent
DurationForm(H, M) ==
    (IF IsAbsent(H) THEN <<>> ELSE NatText(H) \o <<"h">>)
    \o (IF ~IsAbsent(H) /\ ~IsAbsent(M) THEN <<" ">> ELSE <<>>)
    \o (IF IsAbsent(M) THEN <<>> ELSE NatText(M) \o <<"m">>)

\* texts that hold neither an hours nor a minutes component
NoComponentTexts == { <<>>, <<" ">>, <<"n", "/", "a">>, <<"1", "2">> }

\* parse_duration accepts every duration text and gives 60*H + M minutes
DurationFormsParsed ==
    \A H \in DurationParts, M \in DurationParts :
        /\ parse_duration_ok(DurationForm(H, M))
        /\ parse_duration(DurationForm(H, M)) = 60 * PartMinutes(H) + PartMinutes(M)
        /\ parse_duration(DurationForm(H, M)) >= 0

\* parse_duration gives zero for a text with neither component
NoComponentIsZero ==
    \A t \in NoComponentTexts : parse_duration_ok(t) /\ parse_duration(t) = 0

\* C13: parse_duration accepts every text "{H}h {M}m" with either
\* component optionally absent and gives exactly 60*H + M minutes, gives
\* zero for a text with neither component, and never a negative span; the
\* duration of a returned FlightInfo is this value of the raw duration.
C13_ParseDuration ==
    /\ DurationFormsParsed
    /\ NoComponentIsZero
    /\ (lkPc = "return" /\ lkResult.kind = "info") =>
        /\ info.duration = parse_duration(raw.duration)
        /\ \A H \in DurationParts, M \in DurationParts :
            raw.duration = DurationForm(H, M) =>
                info.duration = 60 * PartMinutes(H) + PartMinutes(M)

C13_Witness ==
    /\ lkPc = "return"
    /\ lkResult.kind = "info"
    /\ raw.duration = DurationForm(2, 5)
    /\ info.duration = 125

\* a text cut at its first comma-space boundary: the part before it and
\* the whole part after it; without a boundary the text and ""
SplitAtFirstBoundary(s) ==
    LET p == FindFrom(s, <<",", " ">>, 1) IN
    IF p = 0 THEN << s, <<>> >>
    ELSE << Slice(s, 1, p - 1), Slice(s, p + 2, Len(s)) >>

\* C14: the date and the time of each endpoint in the raw field set are
\* the date+time text of the page cut at its first comma-space boundary,
\* the part before it being the date and the whole part after it the
\* time, so that no text after the first boundary is lost.
C14_SplitAtFirstBoundary ==
    raw # EmptyRaw =>
        LET dt == extract_pair(response.Fc) IN
        /\ << raw.departure_date, raw.departure_time >> = SplitAtFirstBoundary(dt[1])
        /\ << raw.arrival_date, raw.arrival_time >> = SplitAtFirstBoundary(dt[2])

\* the raw fields that a label/value block of the page fills
BlockFields ==
    [Ac |-> {"departure_country", "arrival_country"},
     Bc |-> {"departure_terminal", "arrival_terminal"},
     Fc |-> {"departure_date", "arrival_date", "departure_time", "arrival_time"},
     Hc |-> {"duration"}]

\* C15: on a detail page with a primary heading and without the "no
\* flights" marker parse_response does not raise, whatever the heading
\* says; with the details section present it returns the field set, in
\* which the fields of every missing block are the empty string and the
\* flight number is still taken from the heading.
C15_ParseToleratesAnyPage ==
    [][ (lkPc = "parse" /\ ~NoFlightsMarker(response) /\ response.h1 # <<>>) =>
            /\ lkResult'.exc = "none"
            /\ lkResult'.kind # "raised"
            /\ response.section =>
                /\ lkPc' = "process"
                /\ raw'.flight_number # <<>>
                /\ \A b \in DOMAIN BlockFields :
                    response[b] = <<>> => \A f \in BlockFields[b] : raw'[f] = <<>>
      ]_vars

\* the end the calendar event is to have: the arrival when it is later
\* than the departure, the departure plus the duration otherwise
FallbackEnd(flight_info) ==
    IF Instant(flight_info.arrival_time) > Instant(flight_info.departure_time)
    THEN flight_info.arrival_time
    ELSE AddMinutes(flight_info.departure_time, flight_info.duration)

\* the event starts at the departure and does not end before it starts
EndsAfterStart(event, flight_info) ==
    /\ event.start = flight_info.departure_time
    /\ flight_info.duration >= 0 => Instant(event.end) >= Instant(event.start)
    /\ flight_info.duration > 0 => Instant(event.end) > Instant(event.start)

\* C16: the event built by create_or_update_gcal_event, in
\* calendar_client.py and in main.py, starts at the departure, ends at the
\* arrival when that is later than the departure and at departure +
\* duration otherwise, so it never ends before it starts.
C16_EventNeverEndsBeforeStart ==
    mainPc = "sheet" =>
        /\ event_body.end = FallbackEnd(info)
        /\ EndsAfterStart(event_body, info)

\* main processes the row: it has a date and a flight number and its date
\* is not in the past
Processable(row) ==
    /\ row.Date # NoDate
    /\ row.Flight # <<>>
    /\ row.Flight # PyNone
    /\ ~DateLE(row.Date, now)

\* C17: a sheet write of main targets the sheet row the flight was read
\* from (data row k is sheet row k + 1, the header being row 1), changes
\* no other row and comes after the calendar upsert of that row returned
\* its identifier; the header row is never written, and a calendar call is
\* made and a row is written only for a processable row whose lookup
\* returned a FlightInfo.
C17_WritesOnlyTheRowRead ==
    /\ [](1 \notin written)
    /\ [](mainPc \in {"calendar", "sheet"} =>
            /\ i + 1 \in 1..Len(rows)
            /\ Processable(rows[i + 1])
            /\ info # NoFlightInfo)
    /\ [][ (sheet' # sheet \/ written' # written) =>
                /\ mainPc = "sheet"
                /\ event_id \in events
                /\ event_body # NoEvent
                /\ written' = written \cup {(i + 1) + 1}
                /\ \A r \in 1..Len(sheet) : r # i + 1 => sheet'[r] = sheet[r]
                /\ sheet'[i + 1].Date = rows[i + 1].Date
                /\ sheet'[i + 1].Flight = rows[i + 1].Flight
         ]_vars
    /\ [][ (events' # events \/ inserted' # inserted \/ event_body' \notin {event_body, NoEvent}) =>
                mainPc = "calendar" ]_vars

C17_Witness ==
    /\ Len(sheet) = 2
    /\ sheet[1].Date = NoDate
    /\ written = {3}
    /\ sheet[2].gcal_event_id \in events
    /\ mainPc = "done"

\* the run under way got no rows: reading the spreadsheet failed and
\* fetch_flights_google_doc returned the empty list (a sheet has rows)
ReadFailed == runs > 0 /\ rows = <<>>

\* C18: when reading the spreadsheet fails main gets an empty row list and
\* finishes normally without raising, having made no flight lookup, no
\* calendar write and no sheet write.
C18_ReadFailureEndsRunQuietly ==
    ReadFailed =>
        /\ mainPc = "done"
        /\ raisedBy = "none"
        /\ lkPc = "idle"
        /\ event_body = NoEvent

====
